---- MODULE Spec2Model ----
\* Verification model of the wallet core:
\*   - class Bitcoin (getPsbtPreview, signPsbt, getTaprootAddress),
\*     src/src/extension/content-script/batteries/GeyserProject.ts
\*   - connectors Commando and NWCConnector, src/unnamed/part_000
EXTENDS Integers, Sequences, FiniteSets, TLC

VARIABLES
    networkType,   \* Bitcoin.networkType
    psbt,          \* the parsed transaction proposal handed to the Bitcoin methods
    previewOut,    \* outcome of the last getPsbtPreview(psbt)
    signOut,       \* outcome of the last signPsbt(psbt), with its trace of key/sign steps
    addressOut,    \* outcome of the last getTaprootAddress()
    session,       \* per connector: state of its transport session
    lastCall,      \* the last connector call: adapter, operation, arguments
    sent,          \* the requests the last connector call sent to the remote side
    outcome        \* how the last connector call ended

btcVars == <<networkType, psbt, previewOut, signOut, addressOut>>
connVars == <<session, lastCall, sent, outcome>>
vars == <<networkType, psbt, previewOut, signOut, addressOut,
          session, lastCall, sent, outcome>>

\* ---------------------------------------------------------------- bounds
MaxInputs == 2
MaxOutputs == 2

\* ------------------------------------------------------- optional values
\* A JavaScript value that may be undefined: <<>> is undefined, <<x>> is x.
Undefined == <<>>
Some(x) == <<x>>
IsDefined(o) == o # <<>>
Get(o) == o[1]

\* ----------------------------------------------------------- Bitcoin keys
BTC_TAPROOT_DERIVATION_PATH == "m/86'/0'/0'/0"
BTC_TAPROOT_DERIVATION_PATH_REGTEST == "m/86'/1'/0'/0"

NetworkTypes == {"bitcoin", "regtest"}

\* `${derivationPathWithoutIndex}/${index}`
DerivationPath(net) ==
    [prefix |-> IF net = "bitcoin" THEN BTC_TAPROOT_DERIVATION_PATH
                                   ELSE BTC_TAPROOT_DERIVATION_PATH_REGTEST,
     index |-> 0]

\* mnemonic.deriveKey(path): a deterministic key pair per path.
deriveKey(path) ==
    [privateKey |-> [secret |-> path], publicKey |-> [point |-> path]]

\* btc.p2tr(pubkey, undefined, network).address: one address per (key, network).
p2tr(pubkey, net) == [kind |-> "p2tr", network |-> net, key |-> pubkey]

\* btc.getAddress("tr", privateKey, network): the Taproot address of the
\* public key that belongs to the private key.
getAddress(privateKey, net) == p2tr([point |-> privateKey.secret], net)

UNKNOWN == [kind |-> "UNKNOWN"]

\* ecc tweak of tweakSigner/tapTweakHash (no merkle root): the output key a
\* key-path spend of internal key `pubkey` commits to.
tapTweak(pubkey) == [tweaked |-> pubkey]

\* tweakSigner(ECPair, ECPair.fromPrivateKey(privateKey), {network})
tweakSigner(keyPair) ==
    [privateKey |-> [tweakedSecret |-> keyPair.privateKey],
     publicKey |-> tapTweak(keyPair.publicKey)]

\* ------------------------------------------------------------- proposals
Keys == {deriveKey(DerivationPath(n)).publicKey : n \in NetworkTypes}
DerivationKey == deriveKey(DerivationPath("regtest")).publicKey
Values == {49000, 1000}
Destinations == {[kind |-> "destination", text |-> "bc1p-dest"]}

\* tapBip32Derivation?: TapBip32Derivation[]  (undefined, empty, or records)
DerivationLists == {Undefined, Some(<<>>), Some(<<[pubkey |-> DerivationKey]>>)}

\* witnessUtxo?: {value, script}; the script of a Taproot previous output
\* commits to the tweak of some internal key.
WitnessUtxos ==
    {Undefined} \cup {Some([value |-> 50000, script |-> tapTweak(k)]) : k \in Keys}

PsbtInputs ==
    [tapInternalKey : {Undefined} \cup {Some(k) : k \in Keys},
     tapBip32Derivation : DerivationLists,
     witnessUtxo : WitnessUtxos]

\* data.outputs[i] and txOutputs[i] of one output, side by side
PsbtOutputs ==
    [tapBip32Derivation : DerivationLists,
     address : {Undefined} \cup {Some(d) : d \in Destinations},
     value : Values]

SeqsUpTo(S, n) == UNION {[1..k -> S] : k \in 0..n}

Proposals ==
    [inputs : SeqsUpTo(PsbtInputs, MaxInputs),
     outputs : SeqsUpTo(PsbtOutputs, MaxOutputs)]

\* ------------------------------------------------------- call outcomes
NoError == [name |-> "", message |-> "", index |-> -1]
Err(msg, i) == [name |-> "Error", message |-> msg, index |-> i]
\* reading a property of undefined
TypeErr(i) == [name |-> "TypeError", message |-> "Cannot read properties of undefined", index |-> i]

NotCalled == [status |-> "none", error |-> NoError, inputs |-> <<>>, outputs |-> <<>>]
Thrown(e) == [status |-> "thrown", error |-> e, inputs |-> <<>>, outputs |-> <<>>]
Returned(ins, outs) == [status |-> "returned", error |-> NoError, inputs |-> ins, outputs |-> outs]

\* --------------------------------------------------------- getPsbtPreview
\* tapInternalKey || tapBip32Derivation?.[0]?.pubkey   (input side)
InputPubkey(input) ==
    IF IsDefined(input.tapInternalKey) THEN input.tapInternalKey
    ELSE IF IsDefined(input.tapBip32Derivation) /\ Len(Get(input.tapBip32Derivation)) >= 1
         THEN Some(Get(input.tapBip32Derivation)[1].pubkey)
         ELSE Undefined

\* The input loop, from (1-based) position i with the entries pushed so far:
\* a thrown error, or the list of input entries.
RECURSIVE InputLoop(_, _, _, _)
InputLoop(inputs, i, acc, net) ==
    IF i > Len(inputs) THEN Returned(acc, <<>>)
    ELSE IF i > 1 THEN Thrown(Err("Multiple inputs currently unsupported", -1))
    ELSE LET pubkey == InputPubkey(inputs[i])
             witnessUtxo == inputs[i].witnessUtxo
         IN IF ~IsDefined(pubkey) THEN Thrown(Err("No pubkey found in input", i - 1))
            ELSE IF ~IsDefined(witnessUtxo) THEN Thrown(Err("No witnessUtxo in input", i - 1))
            ELSE InputLoop(inputs, i + 1,
                           Append(acc, [amount |-> Get(witnessUtxo).value,
                                        address |-> p2tr(Get(pubkey), net)]),
                           net)

\* output.tapBip32Derivation?.[0].pubkey || txOutput.address: "thrown" when
\* the list is present and empty ([0] is undefined and .pubkey is read of it).
OutputPubkey(output) ==
    IF ~IsDefined(output.tapBip32Derivation) THEN [thrown |-> FALSE, pubkey |-> output.address]
    ELSE IF Len(Get(output.tapBip32Derivation)) = 0 THEN [thrown |-> TRUE, pubkey |-> Undefined]
    ELSE [thrown |-> FALSE, pubkey |-> Some(Get(output.tapBip32Derivation)[1].pubkey)]

RECURSIVE OutputLoop(_, _, _, _)
OutputLoop(outputs, i, acc, net) ==
    IF i > Len(outputs) THEN Returned(<<>>, acc)
    ELSE LET r == OutputPubkey(outputs[i])
         IN IF r.thrown THEN Thrown(TypeErr(i - 1))
            ELSE OutputLoop(outputs, i + 1,
                            Append(acc, [amount |-> outputs[i].value,
                                         address |-> IF IsDefined(r.pubkey)
                                                     THEN p2tr(Get(r.pubkey), net)
                                                     ELSE UNKNOWN]),
                            net)

getPsbtPreview(p, net) ==
    LET ins == InputLoop(p.inputs, 1, <<>>, net)
    IN IF ins.status = "thrown" THEN ins
       ELSE LET outs == OutputLoop(p.outputs, 1, <<>>, net)
            IN IF outs.status = "thrown" THEN outs
               ELSE Returned(ins.inputs, outs.outputs)

\* --------------------------------------------------------------- signPsbt
Step(op, path, index) == [op |-> op, path |-> path, index |-> index]
NoPath == [prefix |-> "", index |-> -1]

SignNotCalled == [status |-> "none", error |-> NoError, steps |-> <<>>, tx |-> Undefined]
SignThrown(e, steps) == [status |-> "thrown", error |-> e, steps |-> steps, tx |-> Undefined]
SignReturned(steps, tx) == [status |-> "returned", error |-> NoError, steps |-> steps, tx |-> Some(tx)]

\* taprootPsbt.signTaprootInput(index, keyPair) of bitcoinjs-lib, as called at
\* line 105: a key-path signature is produced when the input names an internal
\* key and the signer's public key is the output key of the previous output's
\* script; otherwise the call throws.
signTaprootInput(input, keyPair) ==
    /\ IsDefined(input.tapInternalKey)
    /\ IsDefined(input.witnessUtxo)
    /\ Get(input.witnessUtxo).script = keyPair.publicKey

\* taprootPsbt.data.inputs.forEach((input, index) => signTaprootInput(index, keyPair))
RECURSIVE SignLoop(_, _, _, _)
SignLoop(inputs, i, steps, keyPair) ==
    IF i > Len(inputs) THEN SignReturned(steps, [signedBy |-> keyPair.publicKey, inputs |-> Len(inputs)])
    ELSE IF ~signTaprootInput(inputs[i], keyPair)
         THEN SignThrown(Err("Can not sign for input", i - 1),
                         Append(steps, Step("signTaprootInput", NoPath, i - 1)))
         ELSE SignLoop(inputs, i + 1, Append(steps, Step("signTaprootInput", NoPath, i - 1)), keyPair)

signPsbt(p, net) ==
    LET derivationPath == DerivationPath(net)
        derivedKey == deriveKey(derivationPath)
        keyPair == tweakSigner(derivedKey)
        signed == SignLoop(p.inputs, 1, <<Step("deriveKey", derivationPath, -1)>>, keyPair)
    IN IF signed.status = "thrown" THEN signed
       \* finalizeAllInputs() of bitcoinjs-lib refuses a transaction without inputs
       ELSE IF Len(p.inputs) = 0
            THEN SignThrown(Err("No input #0", 0),
                            Append(signed.steps, Step("finalizeAllInputs", NoPath, -1)))
            ELSE SignReturned(Append(signed.steps, Step("finalizeAllInputs", NoPath, -1)),
                              Get(signed.tx))

\* ------------------------------------------------------ getTaprootAddress
AddressNotCalled == [status |-> "none", address |-> Undefined]

getTaprootAddress(net) ==
    LET derivationPath == DerivationPath(net)
        derivedKey == deriveKey(derivationPath)
    IN [status |-> "returned",
        address |-> Some([address |-> getAddress(derivedKey.privateKey, net),
                          derivationPath |-> derivationPath,
                          index |-> 0,
                          publicKey |-> derivedKey.publicKey])]

\* --------------------------------------------------- Bitcoin: the machine
\* new Bitcoin(mnemonic, networkType), and the proposal the caller reviews
\* and then signs.
InitBitcoin ==
    /\ networkType \in NetworkTypes
    /\ psbt \in Proposals
    /\ previewOut = NotCalled
    /\ signOut = SignNotCalled
    /\ addressOut = AddressNotCalled

GetPsbtPreview ==
    /\ previewOut' = getPsbtPreview(psbt, networkType)
    /\ UNCHANGED <<networkType, psbt, signOut, addressOut, connVars>>

SignPsbt ==
    /\ signOut' = signPsbt(psbt, networkType)
    /\ UNCHANGED <<networkType, psbt, previewOut, addressOut, connVars>>

GetTaprootAddress ==
    /\ addressOut' = getTaprootAddress(networkType)
    /\ UNCHANGED <<networkType, psbt, previewOut, signOut, connVars>>

\* a Bitcoin object that is never called
InitIdleBitcoin ==
    /\ networkType = "bitcoin"
    /\ psbt = [inputs |-> <<>>, outputs |-> <<>>]
    /\ previewOut = NotCalled
    /\ signOut = SignNotCalled
    /\ addressOut = AddressNotCalled

NextBitcoin == GetPsbtPreview \/ SignPsbt \/ GetTaprootAddress

\* ============================================================ connectors
\* Strings whose characters matter are sequences of character codes.
MaxValueLen == 1
MaxRecords == 2
MaxInvoices == 2
MaxChannels == 2

\* "7629169" and "696969", the record keys of a keysend
Key7629169 == <<55, 54, 50, 57, 49, 54, 57>>
Key696969 == <<54, 57, 54, 57, 54, 57>>
RecordKeys == {Key7629169, Key696969}
\* 'h' and 'e-acute': one- and two-byte UTF-8 characters
ValueChars == {104, 233}
RecordValues == UNION {[1..k -> ValueChars] : k \in 0..MaxValueLen}

\* UTF8.parse(value): the UTF-8 bytes of a string (code points below 2048)
RECURSIVE UTF8(_)
UTF8(str) ==
    IF str = <<>> THEN <<>>
    ELSE LET c == Head(str)
         IN (IF c < 128 THEN <<c>> ELSE <<192 + (c \div 64), 128 + (c % 64)>>) \o UTF8(Tail(str))

HexDigit(n) == IF n < 10 THEN 48 + n ELSE 87 + n

\* wordArray.toString(Hex): two lower-case hex digits per byte
RECURSIVE Hex(_)
Hex(bytes) ==
    IF bytes = <<>> THEN <<>>
    ELSE <<HexDigit(Head(bytes) \div 16), HexDigit(Head(bytes) % 16)>> \o Hex(Tail(bytes))

\* parseInt(str, 10) on a string of decimal digits (NaN, here -1, without a leading digit)
RECURSIVE ParseDigits(_, _)
ParseDigits(str, acc) ==
    IF str = <<>> \/ Head(str) < 48 \/ Head(str) > 57 THEN acc
    ELSE ParseDigits(Tail(str), 10 * acc + (Head(str) - 48))

parseInt(str) ==
    IF str = <<>> \/ Head(str) < 48 \/ Head(str) > 57 THEN -1 ELSE ParseDigits(str, 0)

\* JavaScript numbers, held exactly in thousandths so that n / 1000 is exact;
\* NaN is what a non-numeric string coerces to, and it spreads through arithmetic.
Num(n) == [milli |-> n * 1000, nan |-> FALSE]
NaN == [milli |-> 0, nan |-> TRUE]
Div1000(x) == IF x.nan THEN NaN ELSE [milli |-> x.milli \div 1000, nan |-> FALSE]
Minus(x, y) == IF x.nan \/ y.nan THEN NaN ELSE [milli |-> x.milli - y.milli, nan |-> FALSE]

\* ------------------------------------------------ remote side: answers
\* What the node, the wallet service or the transport answers to a request.
ErrorValues ==
    {[kind |-> "Error", message |-> <<"socket closed">>],
     [kind |-> "object", message |-> <<"Not permitted">>]}

\* String(err): "Error: <message>" for an Error, "[object Object]" for a plain object
StringOf(err) ==
    IF err.kind = "Error" THEN <<"Error: ">> \o err.message ELSE <<"[object Object]">>

\* new Error(x): a fresh Error whose message is String(x)
NewError(x) == [kind |-> "Error", message |-> StringOf(x)]
\* new Error("literal")
ErrorOf(text) == [kind |-> "Error", message |-> <<text>>]

NoReply == [ok |-> FALSE, body |-> Undefined, error |-> Undefined]
Ok(body) == [ok |-> TRUE, body |-> Some(body), error |-> Undefined]
Fail(e) == [ok |-> FALSE, body |-> Undefined, error |-> Some(e)]
Replies(bodies) == {Ok(b) : b \in bodies} \cup {Fail(e) : e \in ErrorValues}

\* ------------------------------------------------ how a call ends
NoOutcome == [status |-> "none", data |-> Undefined, error |-> Undefined]
Resolved(d) == [status |-> "resolved", data |-> Some(d), error |-> Undefined]
\* a promise fulfilled with an Error object as its value
ResolvedWithError(e) == [status |-> "resolved", data |-> Undefined, error |-> Some(e)]
Rejected(e) == [status |-> "rejected", data |-> Undefined, error |-> Some(e)]
ThrownSync(e) == [status |-> "thrown", data |-> Undefined, error |-> Some(e)]

Done(requests, result) == [sent |-> requests, outcome |-> result]

\* --------------------------------------------------------------- Commando
rune == "rune"
\* this.ln.commando({method, params, rune: this.config.rune})
commando(method, params) == [method |-> method, params |-> params, rune |-> rune]

\* An awaited ln.commando(...) without a catch: the rejection propagates.
Propagate(request, reply, onOk) ==
    IF reply.ok THEN Done(<<request>>, Resolved(onOk))
    ELSE Done(<<request>>, Rejected(Get(reply.error)))

Commando_connectPeer(args, reply) ==
    LET request == commando("connect", [id |-> args.pubkey, host |-> args.host])
       \* {data: true}
    IN IF reply.ok THEN Done(<<request>>, Resolved([data |-> [true |-> TRUE]]))
       ELSE Done(<<request>>, ResolvedWithError(NewError(Get(reply.error))))

\* (amount / 1000).toString()
NumberToString(x) == [decimalOf |-> x]

ConnectorInvoice(invoice) ==
    [id |-> invoice.label,
     memo |-> invoice.description,
     settled |-> (invoice.status = "paid"),
     preimage |-> invoice.payment_preimage,
     settleDate |-> invoice.paid_at,
     type |-> "received",
     totalAmount |-> NumberToString(Div1000(Num(invoice.amount_received_msat)))]

Commando_getInvoices(reply) ==
    LET request == commando("listinvoices", [none |-> TRUE])
        invoices == Get(reply.body).invoices
    IN Propagate(request, reply,
                 [data |-> [invoices |-> [i \in 1..Len(invoices) |-> ConnectorInvoice(invoices[i])]]])

Commando_getInfo(reply) ==
    LET request == commando("getinfo", [none |-> TRUE])
        response == Get(reply.body)
    IN Propagate(request, reply,
                 [data |-> [alias |-> response.alias, pubkey |-> response.id, color |-> response.color]])

RECURSIVE SumChannelSat(_, _, _)
SumChannelSat(channels, i, lnBalance) ==
    IF i > Len(channels) THEN lnBalance
    ELSE SumChannelSat(channels, i + 1, lnBalance + channels[i].channel_sat)

Commando_getBalance(reply) ==
    LET request == commando("listfunds", [none |-> TRUE])
    IN Propagate(request, reply,
                 [data |-> [balance |-> SumChannelSat(Get(reply.body).channels, 1, 0)]])

\* str.replace("msat", "") on "<digits>msat", and the coercion of the rest to a number
ReplaceMsat(str) == [digits |-> str.digits, suffix |-> IF str.suffix = "msat" THEN "" ELSE str.suffix]
AsNumber(str) == IF str.suffix = "" THEN Num(str.digits) ELSE NaN

\* the .then of sendPayment and keysend
PayResponse(parsed) ==
    LET parsedTotalAmtStr == ReplaceMsat(parsed.amount_msat)
        parsedSentAmtPaidStr == ReplaceMsat(parsed.amount_sent_msat)
        parsedTotalAmt == Div1000(AsNumber(parsedTotalAmtStr))
        parsedTotalFee == Div1000(Minus(AsNumber(parsedSentAmtPaidStr), AsNumber(parsedTotalAmtStr)))
    IN [data |-> [paymentHash |-> parsed.payment_hash,
                  preimage |-> parsed.payment_preimage,
                  route |-> [total_amt |-> parsedTotalAmt, total_fees |-> parsedTotalFee]]]

Commando_sendPayment(args, reply) ==
    Propagate(commando("pay", [bolt11 |-> args.paymentRequest]), reply,
              PayResponse(Get(reply.body)))

\* for (const key in args.customRecords) boostagram[key] = UTF8.parse(value).toString(Hex)
HexRecords(customRecords) ==
    [i \in 1..Len(customRecords) |->
        [key |-> customRecords[i].key, value |-> Hex(UTF8(customRecords[i].value))]]

Commando_keysend(args, reply) ==
    LET boostagram == HexRecords(args.customRecords)
        request == commando("keysend", [destination |-> args.pubkey,
                                        msatoshi |-> args.amount * 1000,
                                        extratlvs |-> boostagram])
    IN Propagate(request, reply, PayResponse(Get(reply.body)))

Commando_checkPayment(args, reply) ==
    LET request == commando("listinvoices", [payment_hash |-> args.paymentHash])
        invoices == Get(reply.body).invoices
    IN Propagate(request, reply,
                 IF Len(invoices) # 1 THEN [data |-> [paid |-> FALSE]]
                 ELSE [data |-> [paid |-> (invoices[1].status = "paid")]])

Commando_signMessage(args, reply) ==
    Propagate(commando("signmessage", [message |-> args.message]), reply,
              [data |-> [message |-> args.message, signature |-> Get(reply.body).zbase]])

\* (args.amount as number): a number, or a numeric string coerced by the product
NumberOf(amount) ==
    IF amount.type = "number" THEN amount.n
    ELSE IF amount.text = <<>> THEN 0 ELSE parseInt(amount.text)

\* label is the uuidv4() of the call
Commando_makeInvoice(args, label, reply) ==
    LET request == commando("invoice", [amount_msat |-> NumberOf(args.amount) * 1000,
                                        label |-> label,
                                        description |-> args.memo])
    IN Propagate(request, reply,
                 [data |-> [paymentRequest |-> Get(reply.body).bolt11,
                            rHash |-> Get(reply.body).payment_hash]])

\* ----------------------------------------------------------- NWCConnector
supportedMethods ==
    {"getInfo", "makeInvoice", "sendPayment", "sendPaymentAsync",
     "getBalance", "keysend", "getTransactions", "signMessage"}

\* the operations class NWCConnector defines
NWCMethods ==
    {"getInfo", "getBalance", "getTransactions", "makeInvoice", "sendPayment",
     "keysend", "checkPayment", "signMessage", "connectPeer"}

\* this.nwc.<method>(params)
nwc(method, params) == [method |-> method, params |-> params]

NWC_getInfo(reply) ==
    Propagate(nwc("getInfo", [none |-> TRUE]), reply, [data |-> Get(reply.body)])

NWC_getBalance(reply) ==
    Propagate(nwc("getBalance", [none |-> TRUE]), reply,
              [data |-> [balance |-> Get(reply.body).balance, currency |-> "BTC"]])

ConnectorTransaction(transaction, index) ==
    [id |-> index,
     memo |-> transaction.description,
     preimage |-> transaction.preimage,
     payment_hash |-> transaction.payment_hash,
     settled |-> TRUE,
     settleDate |-> transaction.settled_at * 1000,
     totalAmount |-> transaction.amount,
     type |-> IF transaction.type = "incoming" THEN "received" ELSE "sent"]

NWC_getTransactions(reply) ==
    LET transactions == Get(reply.body).transactions
    IN Propagate(nwc("listTransactions", [unpaid |-> FALSE, limit |-> 50]), reply,
                 [data |-> [transactions |->
                     [i \in 1..Len(transactions) |-> ConnectorTransaction(transactions[i], i - 1)]]])

\* decodedInvoice.tags.find((tag) => tag.tagName === "payment_hash")?.data
RECURSIVE FindPaymentHash(_, _)
FindPaymentHash(tags, i) ==
    IF i > Len(tags) THEN Undefined
    ELSE IF tags[i].tagName = "payment_hash" THEN Some(tags[i].data)
    ELSE FindPaymentHash(tags, i + 1)

\* lightningPayReq.decode(paymentRequest): the tags and the amount fields
decode(paymentRequest) ==
    [tags |-> paymentRequest.tags,
     millisatoshis |-> paymentRequest.millisatoshis,
     satoshis |-> paymentRequest.satoshis]

\* typeof args.amount === "number" ? args.amount : parseFloat(args.amount) || 0
InvoiceAmount(amount) ==
    IF amount.type = "number" THEN amount.n
    ELSE IF parseInt(amount.text) = -1 THEN 0 ELSE parseInt(amount.text)

\* the defect of trusting the answer's payment_hash field and never decoding
NWC_makeInvoice_FieldOnly(args, reply) ==
    LET request == nwc("makeInvoice", [amount |-> InvoiceAmount(args.amount), description |-> args.memo])
        invoice == Get(reply.body)
    IN IF ~reply.ok THEN Done(<<request>>, Rejected(Get(reply.error)))
       ELSE Done(<<request>>,
                 Resolved([data |-> [paymentRequest |-> invoice.invoice,
                                     rHash |-> IF IsDefined(invoice.payment_hash)
                                               THEN Get(invoice.payment_hash) ELSE ""]]))

\* !rHash holds for an absent field and for the empty string alike
NWC_makeInvoice(args, reply) ==
    LET request == nwc("makeInvoice", [amount |-> InvoiceAmount(args.amount), description |-> args.memo])
        invoice == Get(reply.body)
        decodedHash == FindPaymentHash(decode(invoice.invoice).tags, 1)
    IN IF ~reply.ok THEN Done(<<request>>, Rejected(Get(reply.error)))
       ELSE IF IsDefined(invoice.payment_hash) /\ Get(invoice.payment_hash) # ""
            THEN Done(<<request>>, Resolved([data |-> [paymentRequest |-> invoice.invoice,
                                                       rHash |-> Get(invoice.payment_hash)]]))
       ELSE IF ~IsDefined(decodedHash) \/ Get(decodedHash) = ""
            THEN Done(<<request>>, Rejected(ErrorOf("Could not find payment hash in invoice")))
       ELSE Done(<<request>>, Resolved([data |-> [paymentRequest |-> invoice.invoice,
                                                  rHash |-> Get(decodedHash)]]))

\* invoice.millisatoshis ? parseInt(invoice.millisatoshis || "0", 10) / 1000 : invoice.satoshis ?? 0
TotalAmt(invoice) ==
    IF IsDefined(invoice.millisatoshis) /\ Get(invoice.millisatoshis) # <<>>
    THEN Div1000(Num(parseInt(Get(invoice.millisatoshis))))
    ELSE IF IsDefined(invoice.satoshis) THEN Num(Get(invoice.satoshis)) ELSE Num(0)

\* the defect of paying before the request is decoded, and trusting the answer's hash
NWC_sendPayment_PayFirst(args, reply) ==
    LET invoice == decode(args.paymentRequest)
        request == nwc("payInvoice", [invoice |-> args.paymentRequest])
    IN IF ~reply.ok THEN Done(<<request>>, Rejected(Get(reply.error)))
       ELSE Done(<<request>>,
                 Resolved([data |-> [preimage |-> Get(reply.body).preimage,
                                     paymentHash |-> Get(reply.body).payment_hash,
                                     route |-> [total_amt |-> TotalAmt(invoice),
                                                total_fees |-> Num(0)]]]))

NWC_sendPayment(args, reply) ==
    LET invoice == decode(args.paymentRequest)
        paymentHash == FindPaymentHash(invoice.tags, 1)
        request == nwc("payInvoice", [invoice |-> args.paymentRequest])
    IN IF ~IsDefined(paymentHash)
       THEN Done(<<>>, Rejected(ErrorOf("Could not find payment hash in invoice")))
       ELSE IF ~reply.ok THEN Done(<<request>>, Rejected(Get(reply.error)))
       ELSE Done(<<request>>,
                 Resolved([data |-> [preimage |-> Get(reply.body).preimage,
                                     paymentHash |-> Get(paymentHash),
                                     route |-> [total_amt |-> TotalAmt(invoice),
                                                total_fees |-> Num(0)]]]))

\* Object.entries(customRecords).map(([key, value]) => ({type: parseInt(key, 10), value: value}))
convertCustomRecords(customRecords) ==
    [i \in 1..Len(customRecords) |->
        [type |-> parseInt(customRecords[i].key), value |-> customRecords[i].value]]

\* SHA256(preimage).toString(Hex)
SHA256Hex(preimage) ==
    IF preimage = "preimage-1" THEN "sha256-of-preimage-1" ELSE "sha256-of-another-preimage"

NWC_keysend(args, reply) ==
    LET request == nwc("payKeysend", [pubkey |-> args.pubkey,
                                      amount |-> args.amount,
                                      tlv_records |-> convertCustomRecords(args.customRecords)])
    IN Propagate(request, reply,
                 [data |-> [preimage |-> Get(reply.body).preimage,
                            paymentHash |-> SHA256Hex(Get(reply.body).preimage),
                            route |-> [total_amt |-> Num(args.amount), total_fees |-> Num(0)]]])

\* try { lookupInvoice } catch { paid: false }
NWC_checkPayment(args, reply) ==
    LET request == nwc("lookupInvoice", [payment_hash |-> args.paymentHash])
    IN IF reply.ok
       THEN Done(<<request>>, Resolved([data |-> [paid |-> (Get(reply.body).settled_at # 0),
                                                  preimage |-> Some(Get(reply.body).preimage)]]))
       ELSE Done(<<request>>, Resolved([data |-> [paid |-> FALSE, preimage |-> Undefined]]))

NWC_signMessage(args, reply) ==
    Propagate(nwc("signMessage", [message |-> args.message]), reply,
              [data |-> [message |-> Get(reply.body).message,
                         signature |-> Get(reply.body).signature]])

\* not async: the throw is synchronous
NWC_connectPeer(args) == Done(<<>>, ThrownSync(ErrorOf("Method not implemented.")))

\* connector[name](...) for a name the class does not define
CallUndefinedMethod(name) ==
    Done(<<>>, ThrownSync([kind |-> "TypeError", message |-> <<name, " is not a function">>]))

\* ------------------------------------------- connectors: the arguments
Adapters == {"Commando", "NWC"}

\* "1500", "2000", "0"
MillisatStrings == {<<49, 53, 48, 48>>, <<50, 48, 48, 48>>, <<48>>}

TagLists ==
    {<<[tagName |-> "description", data |-> "coffee"]>>,
     <<[tagName |-> "description", data |-> "coffee"], [tagName |-> "payment_hash", data |-> "hash-a"]>>,
     <<[tagName |-> "payment_hash", data |-> "hash-b"], [tagName |-> "description", data |-> "coffee"]>>}

\* a BOLT11 payment request, by what its decoding yields
PaymentRequests ==
    [tags : TagLists,
     millisatoshis : {Undefined} \cup {Some(m) : m \in MillisatStrings},
     satoshis : {Undefined, Some(2)}]

InvoiceRequests == [tags : TagLists, millisatoshis : {Some(<<50, 48, 48, 48>>)}, satoshis : {Some(2)}]

HashOf(paymentRequest) == FindPaymentHash(paymentRequest.tags, 1)

\* args.customRecords: an object, as the list of its entries in property
\* order (integer-like keys are enumerated in ascending numeric order)
CustomRecords ==
    {cr \in UNION {[1..n -> [key : RecordKeys, value : RecordValues]] : n \in 0..MaxRecords} :
        \A i, j \in 1..Len(cr) : i < j => parseInt(cr[i].key) < parseInt(cr[j].key)}

KeysendArgs == [pubkey : {"02dest"}, amount : {21}, customRecords : CustomRecords]

Amounts ==
    {[type |-> "number", n |-> 1000, text |-> <<>>],
     [type |-> "string", n |-> 0, text |-> <<49, 48, 48, 48>>],
     [type |-> "string", n |-> 0, text |-> <<>>]}
MakeInvoiceArgs == [amount : Amounts, memo : {"coffee"}]
CheckPaymentArgs == [paymentHash : {"hash-a"}]
SignMessageArgs == [message : {"hello"}]
ConnectPeerArgs == [pubkey : {"02peer"}, host : {"peer:9735"}]
NoArgs == [none |-> TRUE]

\* ------------------------------------------- connectors: the answers
Msat(n) == [digits |-> n, suffix |-> "msat"]

CommandoInvoices ==
    [label : {"label-1"}, status : {"paid", "unpaid"}, description : {"coffee"},
     amount_received_msat : {1500}, payment_preimage : {"preimage-1"}, paid_at : {1700000}]
InvoiceListBodies == [invoices : SeqsUpTo(CommandoInvoices, MaxInvoices)]
GetInfoBodies == {[alias |-> "node", id |-> "02node", color |-> "ff9900"]}
ListFundsBodies == [channels : SeqsUpTo([channel_sat : {10, 25}], MaxChannels)]
PayBodies ==
    {[payment_preimage |-> "preimage-1", payment_hash |-> "hash-r",
      amount_msat |-> Msat(a), amount_sent_msat |-> Msat(a + f)] : a \in {1500, 2000}, f \in {0, 500}}
SignBodies == {[zbase |-> "zbase-sig"]}
CommandoInvoiceBodies ==
    {[bolt11 |-> r, payment_hash |-> "hash-a"] : r \in {q \in InvoiceRequests : HashOf(q) = Some("hash-a")}}
ConnectBodies == {[id |-> "02peer"]}

NWCInfoBodies == {[alias |-> "wallet", pubkey |-> "02wallet", color |-> "ffffff"]}
NWCBalanceBodies == [balance : {0, 21000}]
NWCTransactions ==
    [description : {"coffee"}, preimage : {"preimage-1"}, payment_hash : {"hash-a"},
     settled_at : {1700000}, amount : {21}, type : {"incoming", "outgoing"}]
NWCTransactionBodies == [transactions : SeqsUpTo(NWCTransactions, MaxInvoices)]
\* payment_hash: absent, empty or given
NWCInvoiceBodies == [invoice : InvoiceRequests, payment_hash : {Undefined, Some(""), Some("hash-a")}]
NWCPayBodies == [preimage : {"preimage-1"}, payment_hash : {"hash-r"}]
\* settled_at: 0 stands for an absent (falsy) settlement time
NWCLookupBodies == [settled_at : {0, 1700000}, preimage : {"preimage-1"}]
NWCSignBodies == {[message |-> "hello", signature |-> "sig"]}

\* ------------------------------------------- connectors: the machine
\* new Commando(config) builds the LnMessage session, not yet connected;
\* new NWCConnector(account, config) builds the NWCClient.
InitConnectors ==
    /\ session = [Commando |-> "created", NWC |-> "open"]
    /\ lastCall = [adapter |-> "", op |-> "", args |-> NoArgs, reply |-> NoReply]
    /\ sent = <<>>
    /\ outcome = NoOutcome

Call(adapter, op, args, reply, done) ==
    /\ lastCall' = [adapter |-> adapter, op |-> op, args |-> args, reply |-> reply]
    /\ sent' = done.sent
    /\ outcome' = done.outcome

\* await this.ln.connect(); init() is called once, on the connector as constructed
CommandoInit ==
    \E reply \in Replies({[connected |-> TRUE]}) :
        /\ session.Commando = "created"
        /\ Call("Commando", "init", NoArgs, reply,
                Done(<<>>, IF reply.ok THEN Resolved(NoArgs) ELSE Rejected(Get(reply.error))))
        /\ session' = IF reply.ok THEN [session EXCEPT !.Commando = "connected"] ELSE session
        /\ UNCHANGED btcVars

\* await this.ln.disconnect()
CommandoUnload ==
    /\ Call("Commando", "unload", NoArgs, NoReply, Done(<<>>, Resolved(NoArgs)))
    /\ session' = [session EXCEPT !.Commando = "closed"]
    /\ UNCHANGED btcVars

NWCInit ==
    /\ session.NWC = "open"
    /\ Call("NWC", "init", NoArgs, NoReply, Done(<<>>, Resolved(NoArgs)))
    /\ UNCHANGED <<session, btcVars>>

\* this.nwc.close()
NWCUnload ==
    /\ Call("NWC", "unload", NoArgs, NoReply, Done(<<>>, Resolved(NoArgs)))
    /\ session' = [session EXCEPT !.NWC = "closed"]
    /\ UNCHANGED btcVars

CommandoConnectPeer ==
    \E args \in ConnectPeerArgs, reply \in Replies(ConnectBodies) :
        /\ Call("Commando", "connectPeer", args, reply, Commando_connectPeer(args, reply))
        /\ UNCHANGED <<session, btcVars>>

CommandoGetInvoices ==
    \E reply \in Replies(InvoiceListBodies) :
        /\ Call("Commando", "getInvoices", NoArgs, reply, Commando_getInvoices(reply))
        /\ UNCHANGED <<session, btcVars>>

CommandoGetInfo ==
    \E reply \in Replies(GetInfoBodies) :
        /\ Call("Commando", "getInfo", NoArgs, reply, Commando_getInfo(reply))
        /\ UNCHANGED <<session, btcVars>>

CommandoGetBalance ==
    \E reply \in Replies(ListFundsBodies) :
        /\ Call("Commando", "getBalance", NoArgs, reply, Commando_getBalance(reply))
        /\ UNCHANGED <<session, btcVars>>

CommandoSendPayment ==
    \E args \in [paymentRequest : InvoiceRequests], reply \in Replies(PayBodies) :
        /\ Call("Commando", "sendPayment", args, reply, Commando_sendPayment(args, reply))
        /\ UNCHANGED <<session, btcVars>>

CommandoKeysend ==
    \E args \in KeysendArgs, reply \in Replies(PayBodies) :
        /\ Call("Commando", "keysend", args, reply, Commando_keysend(args, reply))
        /\ UNCHANGED <<session, btcVars>>

CommandoCheckPayment ==
    \E args \in CheckPaymentArgs, reply \in Replies(InvoiceListBodies) :
        /\ Call("Commando", "checkPayment", args, reply, Commando_checkPayment(args, reply))
        /\ UNCHANGED <<session, btcVars>>

CommandoSignMessage ==
    \E args \in SignMessageArgs, reply \in Replies(SignBodies) :
        /\ Call("Commando", "signMessage", args, reply, Commando_signMessage(args, reply))
        /\ UNCHANGED <<session, btcVars>>

CommandoMakeInvoice ==
    \E args \in MakeInvoiceArgs, label \in {"uuid-1"}, reply \in Replies(CommandoInvoiceBodies) :
        /\ Call("Commando", "makeInvoice", args, reply, Commando_makeInvoice(args, label, reply))
        /\ UNCHANGED <<session, btcVars>>

NWCGetInfo ==
    \E reply \in Replies(NWCInfoBodies) :
        /\ Call("NWC", "getInfo", NoArgs, reply, NWC_getInfo(reply))
        /\ UNCHANGED <<session, btcVars>>

NWCGetBalance ==
    \E reply \in Replies(NWCBalanceBodies) :
        /\ Call("NWC", "getBalance", NoArgs, reply, NWC_getBalance(reply))
        /\ UNCHANGED <<session, btcVars>>

NWCGetTransactions ==
    \E reply \in Replies(NWCTransactionBodies) :
        /\ Call("NWC", "getTransactions", NoArgs, reply, NWC_getTransactions(reply))
        /\ UNCHANGED <<session, btcVars>>

NWCMakeInvoice ==
    \E args \in MakeInvoiceArgs, reply \in Replies(NWCInvoiceBodies) :
        /\ Call("NWC", "makeInvoice", args, reply, NWC_makeInvoice(args, reply))
        /\ UNCHANGED <<session, btcVars>>

\* no request is sent, and so no answer received, when the request has no payment hash
NWCSendPayment ==
    \E args \in [paymentRequest : PaymentRequests], reply \in Replies(NWCPayBodies) :
        LET done == NWC_sendPayment(args, reply)
        IN /\ Call("NWC", "sendPayment", args,
                     IF done.sent = <<>> THEN NoReply ELSE reply, done)
           /\ UNCHANGED <<session, btcVars>>

NWCKeysend ==
    \E args \in KeysendArgs, reply \in Replies(NWCPayBodies) :
        /\ Call("NWC", "keysend", args, reply, NWC_keysend(args, reply))
        /\ UNCHANGED <<session, btcVars>>

NWCCheckPayment ==
    \E args \in CheckPaymentArgs, reply \in Replies(NWCLookupBodies) :
        /\ Call("NWC", "checkPayment", args, reply, NWC_checkPayment(args, reply))
        /\ UNCHANGED <<session, btcVars>>

NWCSignMessage ==
    \E args \in SignMessageArgs, reply \in Replies(NWCSignBodies) :
        /\ Call("NWC", "signMessage", args, reply, NWC_signMessage(args, reply))
        /\ UNCHANGED <<session, btcVars>>

NWCConnectPeer ==
    \E args \in ConnectPeerArgs :
        /\ Call("NWC", "connectPeer", args, NoReply, NWC_connectPeer(args))
        /\ UNCHANGED <<session, btcVars>>

\* a caller that consults supportedMethods, or the contract, and invokes a
\* name the NWCConnector class does not define
NWCCallUndefined ==
    \E name \in (supportedMethods \cup {"getInvoices"}) \ NWCMethods :
        /\ Call("NWC", name, NoArgs, NoReply, CallUndefinedMethod(name))
        /\ UNCHANGED <<session, btcVars>>

NextConnectors ==
    \/ CommandoInit \/ CommandoUnload \/ NWCInit \/ NWCUnload
    \/ CommandoConnectPeer \/ CommandoGetInvoices \/ CommandoGetInfo
    \/ CommandoGetBalance \/ CommandoSendPayment \/ CommandoKeysend
    \/ CommandoCheckPayment \/ CommandoSignMessage \/ CommandoMakeInvoice
    \/ NWCGetInfo \/ NWCGetBalance \/ NWCGetTransactions \/ NWCMakeInvoice
    \/ NWCSendPayment \/ NWCKeysend \/ NWCCheckPayment \/ NWCSignMessage
    \/ NWCConnectPeer \/ NWCCallUndefined

\* ------------------------------------------------------ specifications
\* The Bitcoin class at work on one proposal; the connectors untouched.
InitBitcoinSpec == InitBitcoin /\ InitConnectors
SpecBitcoin == InitBitcoinSpec /\ [][NextBitcoin]_vars

\* The two connectors at work; the Bitcoin class untouched.
InitConnectorsSpec == InitIdleBitcoin /\ InitConnectors
SpecConnectors == InitConnectorsSpec /\ [][NextConnectors]_vars

Init == InitBitcoin /\ InitConnectors
Next == NextBitcoin \/ NextConnectors
Spec == Init /\ [][Next]_vars

\* ================================================================ claims
\* ---- Bitcoin (checked under SpecBitcoin)

PreviewCalled == previewOut.status # "none"
SignCalled == signOut.status # "none"
KeySteps == {i \in 1..Len(signOut.steps) : signOut.steps[i].op \in {"deriveKey", "signTaprootInput"}}

\* C1: a proposal with 0 or at least 2 inputs is rejected by getPsbtPreview and
\* by signPsbt, and signPsbt rejects it before any deriveKey call and before
\* any input is signed.
C1_BadInputCountRejected ==
    Len(psbt.inputs) # 1 =>
        /\ PreviewCalled => previewOut.status = "thrown"
        /\ SignCalled => (signOut.status = "thrown" /\ KeySteps = {})

\* the spending key of an input: the explicit internal key, else the first derivation record
SpendingKey(input) ==
    IF IsDefined(input.tapInternalKey) THEN input.tapInternalKey
    ELSE IF IsDefined(input.tapBip32Derivation) /\ Get(input.tapBip32Derivation) # <<>>
         THEN Some(Head(Get(input.tapBip32Derivation)).pubkey)
         ELSE Undefined

ValidSingleInput ==
    /\ Len(psbt.inputs) = 1
    /\ IsDefined(SpendingKey(psbt.inputs[1]))
    /\ IsDefined(psbt.inputs[1].witnessUtxo)

\* the addresses that resolve an output: of its first derivation record if there is one,
\* else of (or equal to) its explicit destination, else the unresolved marker
ResolvedOutputAddresses(output) ==
    IF IsDefined(output.tapBip32Derivation) /\ Get(output.tapBip32Derivation) # <<>>
    THEN {p2tr(Head(Get(output.tapBip32Derivation)).pubkey, networkType)}
    ELSE IF IsDefined(output.address)
         THEN {Get(output.address), p2tr(Get(output.address), networkType)}
         ELSE {UNKNOWN}

\* C7: with a valid single input, getPsbtPreview never fails because of an
\* output: the preview has one entry per output, in order, with the output's
\* value and its resolved address (or "UNKNOWN"), for every shape of the
\* output's derivation data, a present but empty list included.
C7_OutputsNeverFail ==
    (PreviewCalled /\ ValidSingleInput) =>
        /\ previewOut.status = "returned"
        /\ Len(previewOut.outputs) = Len(psbt.outputs)
        /\ \A i \in 1..Len(psbt.outputs) :
              /\ previewOut.outputs[i].amount = psbt.outputs[i].value
              /\ previewOut.outputs[i].address \in ResolvedOutputAddresses(psbt.outputs[i])

\* C8: for a single-input proposal getPsbtPreview fails with the missing-key
\* error when the input has neither an internal key nor a derivation record,
\* with the missing-value error when it has no witnessUtxo, and otherwise
\* returns exactly one input entry: the witnessUtxo value and the Taproot
\* address of the resolved key; a failure returns no preview at all.
C8_SingleInputResolved ==
    (PreviewCalled /\ Len(psbt.inputs) = 1) =>
        LET input == psbt.inputs[1]
            key == SpendingKey(input)
        IN /\ ~IsDefined(key) =>
                  /\ previewOut.status = "thrown"
                  /\ previewOut.error.message = "No pubkey found in input"
           /\ (IsDefined(key) /\ ~IsDefined(input.witnessUtxo)) =>
                  /\ previewOut.status = "thrown"
                  /\ previewOut.error.message = "No witnessUtxo in input"
           /\ (IsDefined(key) /\ IsDefined(input.witnessUtxo)) =>
                  /\ previewOut.status = "returned"
                  /\ previewOut.inputs = <<[amount |-> Get(input.witnessUtxo).value,
                                            address |-> p2tr(Get(key), networkType)]>>
           /\ previewOut.status = "thrown" =>
                  (previewOut.inputs = <<>> /\ previewOut.outputs = <<>>)

\* C9: for a single-input proposal that getPsbtPreview and signPsbt both
\* accept, the address the preview reports for the input is the address of
\* the key signPsbt derives and signs with, the one getTaprootAddress returns.
C9_PreviewAddressIsSignerAddress ==
    (Len(psbt.inputs) = 1 /\ previewOut.status = "returned" /\ signOut.status = "returned") =>
        /\ previewOut.inputs[1].address =
               getAddress(deriveKey(signOut.steps[1].path).privateKey, networkType)
        /\ addressOut.status = "returned" =>
               previewOut.inputs[1].address = Get(addressOut.address).address

\* ---- connectors (checked under SpecConnectors)

IsOperation == lastCall.op \notin {"", "init", "unload"}
Failed == outcome.status \in {"rejected", "thrown"}

\* C2: checkPayment never fails, on either adapter: {paid: false} when no
\* invoice matches (Commando: also when several do) or the lookup throws,
\* {paid: true} only for exactly one matching invoice in a settled status.
C2_CheckPaymentNeverFails ==
    lastCall.op = "checkPayment" =>
        LET reply == lastCall.reply
            one == /\ reply.ok
                   /\ lastCall.adapter = "Commando" => Len(Get(reply.body).invoices) = 1
            settled == IF lastCall.adapter = "Commando"
                       THEN Get(reply.body).invoices[1].status = "paid"
                       ELSE Get(reply.body).settled_at # 0
        IN /\ outcome.status = "resolved"
           /\ IsDefined(outcome.data)
           /\ ~one => Get(outcome.data).data.paid = FALSE
           /\ Get(outcome.data).data.paid = TRUE => (one /\ settled)

HasPaymentHash(paymentRequest) ==
    \E i \in 1..Len(paymentRequest.tags) : paymentRequest.tags[i].tagName = "payment_hash"

FirstPaymentHash(paymentRequest) ==
    LET i == CHOOSE k \in 1..Len(paymentRequest.tags) :
                 /\ paymentRequest.tags[k].tagName = "payment_hash"
                 /\ \A j \in 1..(k - 1) : paymentRequest.tags[j].tagName # "payment_hash"
    IN paymentRequest.tags[i].data

\* C3: NWCConnector.sendPayment decodes the request before it pays: without a
\* payment_hash tag the call fails and no payInvoice request is sent; otherwise
\* the returned paymentHash is the decoded one and total_amt is the
\* millisatoshi tag divided by 1000, or else the satoshi tag, whatever the
\* remote answer holds.
C3_SendPaymentDecodesFirst ==
    (lastCall.adapter = "NWC" /\ lastCall.op = "sendPayment") =>
        LET pr == lastCall.args.paymentRequest
        IN /\ ~HasPaymentHash(pr) => (Failed /\ sent = <<>>)
           /\ HasPaymentHash(pr) =>
                  (Len(sent) = 1 /\ sent[1].method = "payInvoice" /\ sent[1].params.invoice = pr)
           /\ outcome.status = "resolved" =>
                  /\ HasPaymentHash(pr)
                  /\ Get(outcome.data).data.paymentHash = FirstPaymentHash(pr)
                  \* numbers are held in thousandths: msat / 1000 sat is msat thousandths
                  /\ IsDefined(pr.millisatoshis) =>
                         Get(outcome.data).data.route.total_amt.milli
                             = parseInt(Get(pr.millisatoshis))
                  /\ (~IsDefined(pr.millisatoshis) /\ IsDefined(pr.satoshis)) =>
                         Get(outcome.data).data.route.total_amt.milli = Get(pr.satoshis) * 1000

\* a payment went through whose request carries a millisatoshi amount and
\* whose remote answer names another hash than the decoded one
C3_Witness ==
    /\ lastCall.adapter = "NWC" /\ lastCall.op = "sendPayment"
    /\ outcome.status = "resolved"
    /\ IsDefined(lastCall.args.paymentRequest.millisatoshis)
    /\ Get(outcome.data).data.paymentHash = "hash-b"
    /\ Get(lastCall.reply.body).payment_hash # "hash-b"
    /\ Len(sent) = 1

\* C4: every Commando operation but checkPayment sends exactly one RPC request
\* and, when that request is answered with an error, ends as a failure that
\* carries the same error unmodified, never as a success value.
C4_CommandoErrorsSurface ==
    (lastCall.adapter = "Commando" /\ IsOperation /\ lastCall.op # "checkPayment") =>
        /\ Len(sent) = 1
        /\ ~lastCall.reply.ok =>
               (outcome.status = "rejected" /\ outcome.error = lastCall.reply.error)

\* a session that holds no transport: closed, or never connected
Released(a) == session[a] \in {"closed", "created"}

\* C5: the transport session of a connector is torn down on every exit path:
\* after unload(), after a failed init() and after a failed operation the
\* session is closed.
C5_SessionTornDown ==
    \A a \in Adapters :
        (lastCall.adapter = a /\ (lastCall.op = "unload" \/ Failed)) => Released(a)

\* C6: NWC's supportedMethods agrees with its behaviour: an operation that is
\* not listed fails with NotImplemented and sends nothing, and every listed
\* name is an operation the adapter implements.
C6_SupportedMethodsAgree ==
    (lastCall.adapter = "NWC" /\ IsOperation) =>
        /\ lastCall.op \notin supportedMethods =>
               /\ Failed
               /\ Get(outcome.error) = ErrorOf("Method not implemented.")
               /\ sent = <<>>
        /\ lastCall.op \in supportedMethods =>
               ~(Failed /\ Get(outcome.error).kind = "TypeError")

\* the records a keysend request carries
TransmittedRecords ==
    IF lastCall.adapter = "Commando" THEN sent[1].params.extratlvs ELSE sent[1].params.tlv_records

\* C10: keysend transmits the caller's custom records faithfully and
\* hex-encoded on both adapters: exactly the caller's keys, each value the hex
\* encoding of the UTF-8 bytes of the caller's value.
C10_KeysendRecordsHex ==
    lastCall.op = "keysend" =>
        LET cr == lastCall.args.customRecords
        IN /\ Len(sent) = 1
           /\ Len(TransmittedRecords) = Len(cr)
           /\ \A i \in 1..Len(cr) :
                  /\ IF lastCall.adapter = "Commando"
                     THEN TransmittedRecords[i].key = cr[i].key
                     ELSE TransmittedRecords[i].type = parseInt(cr[i].key)
                  /\ TransmittedRecords[i].value = Hex(UTF8(cr[i].value))

\* the payment_hash field of a makeInvoice answer is present when it is a
\* non-empty string
HashFieldPresent(body) == IsDefined(body.payment_hash) /\ Get(body.payment_hash) # ""

\* C11: NWCConnector.makeInvoice returns as rHash the payment_hash field of
\* the remote answer when that field is present, and otherwise the
\* payment_hash tag decoded from the returned payment request; it fails with
\* the missing-payment-hash error when the hash is absent from both, so a
\* success always carries the returned payment request and a non-empty hash.
C11_MakeInvoiceHash ==
    (lastCall.adapter = "NWC" /\ lastCall.op = "makeInvoice" /\ lastCall.reply.ok) =>
        LET body == Get(lastCall.reply.body)
        IN /\ HashFieldPresent(body) =>
                  /\ outcome.status = "resolved"
                  /\ Get(outcome.data).data.rHash = Get(body.payment_hash)
           /\ (~HashFieldPresent(body) /\ HasPaymentHash(body.invoice)) =>
                  /\ outcome.status = "resolved"
                  /\ Get(outcome.data).data.rHash = FirstPaymentHash(body.invoice)
           /\ (~HashFieldPresent(body) /\ ~HasPaymentHash(body.invoice)) =>
                  /\ outcome.status = "rejected"
                  /\ Get(outcome.error) = ErrorOf("Could not find payment hash in invoice")
           /\ outcome.status = "resolved" =>
                  /\ Get(outcome.data).data.paymentRequest = body.invoice
                  /\ Get(outcome.data).data.rHash # ""

\* an invoice was made whose answer has no usable payment_hash field, and
\* the hash returned is the one decoded from the payment request
C11_Witness ==
    /\ lastCall.adapter = "NWC" /\ lastCall.op = "makeInvoice"
    /\ lastCall.reply.ok
    /\ ~HashFieldPresent(Get(lastCall.reply.body))
    /\ outcome.status = "resolved"
    /\ Get(outcome.data).data.rHash = "hash-b"

\* the caller's satoshi amount of a makeInvoice call, a number or a numeric string
CallerAmount(amount) == IF amount.type = "number" THEN amount.n ELSE parseInt(amount.text)

\* a number of whole satoshis
WholeSat(x) == ~x.nan /\ x.milli % 1000 = 0

====
